---- MODULE Spec2Model ----
(***************************************************************************)
(* vescDash (src/src/main.cpp): the VESC UART-over-BLE frame assembler     *)
(* (notifyCallback), the telemetry decoder (parseVESCResponse), the        *)
(* command encoder (crc16, sendVESCPacket) and the connection life cycle   *)
(* driven by loop(), connectToVESC and MyClientCallbacks::onDisconnect.    *)
(*                                                                         *)
(* Conventions.                                                            *)
(*  - A byte is a number in 0..255; a buffer is a sequence of bytes.  The  *)
(*    source indexes from 0, sequences from 1: At(s, i) is s[i] of C++.    *)
(*  - The floats vescVoltage and vescFetTemp are kept in tenths, that is   *)
(*    as the int16_t the source divides by 10.0.                           *)
(*  - unsigned long arithmetic is modular: Add32, Sub32 (see ULONG_MOD).    *)
(*  - BLE callbacks (notifyCallback, onDisconnect) run in the BLE task,    *)
(*    loop() in the Arduino loop task.  A callback is one step; loop() is  *)
(*    a sequence of steps (pc) between which a callback may run.           *)
(***************************************************************************)
EXTENDS Integers, Sequences, FiniteSets, TLC

VARIABLES
    \* ---- program state (globals of main.cpp)
    rxBuffer,                 \* std::vector<uint8_t> rxBuffer          (l.75)
    vescVoltage,              \* float vescVoltage, in tenths           (l.37)
    vescFetTemp,              \* float vescFetTemp, in tenths           (l.38)
    lastVoltageUpdate,        \* unsigned long lastVoltageUpdate        (l.39)
    isConnected,              \* bool isConnected                       (l.36)
    isReconnecting,           \* bool isReconnecting                    (l.49)
    lastReconnectAttempt,     \* unsigned long lastReconnectAttempt     (l.50)
    lastConnectedDeviceIndex, \* int lastConnectedDeviceIndex           (l.52)
    connectionStartTime,      \* unsigned long connectionStartTime      (l.53)
    selectedDeviceIndex,      \* int selectedDeviceIndex                (l.35)
    nDevices,                 \* discoveredDevices.size()               (l.33)
    pClient,                  \* pClient != nullptr                     (l.70)
    pRemoteCharacteristicRX,  \* pRemoteCharacteristicRX != nullptr     (l.72)
    lastRequest,              \* static unsigned long lastRequest       (l.768)
    \* ---- the loop task: where it is, and its locals
    pc,                       \* the statement loop() executes next
    cvIndex,                  \* connectToVESC: deviceIndex
    cvRet,                    \* connectToVESC: who called, "rc" or "sel"
    sendRet,                  \* sendVESCPacket: where it returns to
    command,                  \* sendVESCPacket: its argument
    sendPacket,               \* sendVESCPacket: uint8_t packet[6], once built
    firstRead,                \* l.715: the operand read first
    readOrder,                \* l.715: which operand that was
    timeSinceUpdate,          \* l.715: unsigned long timeSinceUpdate
    \* ---- environment
    clock,                    \* what millis() returns
    ticks,                    \* how often the clock has advanced
    linkUp,                   \* the BLE link to the device is up
    notifying,                \* notifyCallback is registered, on a link that is up
    pendingDisc,              \* a disconnect event awaits onDisconnect:
                              \*   "none", "peer" (link lost), "local" (disconnect())
    wire,                     \* bytes the device has sent, not yet notified
    nsent,                    \* how many messages the device has sent
    \* ---- observation (history) variables
    fed,                      \* every byte handed to notifyCallback so far
    decoded,                  \* every packet handed to parseVESCResponse so far
    fragmented,               \* a notification has carried part of a message
    scanning,                 \* notifyCallback is in its while loop (l.218)
    iterations,               \* how often the body of that loop has run in
                              \*   this call
    scanFrom,                 \* the length of rxBuffer when the loop began
    lastTaken,                \* the event on which onDisconnect last scheduled a
                              \*   reconnection, "none" once a connect succeeded
                              \*   or the user cancelled or disconnected
    userQuit,                 \* the user pressed Disconnect or Back, and has not
                              \*   asked for a connection since
    rateKind,                 \* what last opened a reconnect interval: "entry"
                              \*   (Reconnecting was entered), "attempt" (l.692
                              \*   called connectToVESC), "manual" (retry now),
                              \*   "none" (connected, cancelled or disconnected)
    rateAt,                   \* the time of that event
    retryNow,                 \* BtnB was pressed at l.680 of this iteration
    cancelled,                \* the user cancelled the reconnection, and has
                              \*   not asked for a connection since
    lateNotify                \* notifyCallback has written lastVoltageUpdate
                              \*   after l.715 read its first operand and
                              \*   before the check of l.719 ran

telemetryVars == <<vescVoltage, vescFetTemp, lastVoltageUpdate>>

flagVars == <<isConnected, isReconnecting, lastReconnectAttempt>>

deviceVars == <<lastConnectedDeviceIndex, selectedDeviceIndex, nDevices>>

clientVars == <<pClient, pRemoteCharacteristicRX>>

localVars == <<cvIndex, cvRet, sendRet, command, sendPacket, firstRead, readOrder,
               timeSinceUpdate>>

timeVars == <<clock, ticks>>

transportVars == <<linkUp, notifying, pendingDisc>>

scanObs == <<scanning, iterations, scanFrom>>

codecObs == <<wire, nsent, fed, decoded, fragmented, scanObs>>

rateObs == <<rateKind, rateAt>>

linkObs == <<lastTaken, userQuit, rateObs, retryNow, cancelled, lateNotify>>

\* everything loop() and onDisconnect work on
linkVars == <<flagVars, deviceVars, clientVars, connectionStartTime, lastRequest,
              pc, localVars, transportVars, linkObs>>

vars == <<rxBuffer, telemetryVars, linkVars, timeVars, codecObs>>

-----------------------------------------------------------------------------
(* Protocol constants *)

VESC_PACKET_START == 2
VESC_PACKET_STOP == 3
COMM_GET_VALUES == 4
COMM_ALIVE == 30

Byte == 0..255

At(s, i) == s[i + 1]

Pow2(n) == 2 ^ n

\* unsigned long arithmetic wraps.  The target's unsigned long has 32 bits;
\* TLC's integers are 32-bit signed, so the model wraps at 2^30, which is
\* also far above every interval the program compares with.
ULONG_MOD == Pow2(30)

\* a + b and a - b on unsigned long
Add32(a, b) == (a + b) % ULONG_MOD

\* the distance of the two readings, with no wrap
Sub32_unreduced(a, b) == IF a >= b THEN a - b ELSE b - a

Sub32(a, b) == (a - b + ULONG_MOD) % ULONG_MOD

-----------------------------------------------------------------------------
(* crc16, l.99-112 *)

\* bit k of a ^ b, in place
XorBit(a, b, k) == ((((a \div Pow2(k)) % 2) + ((b \div Pow2(k)) % 2)) % 2) * Pow2(k)

\* a ^ b on 16 bits
BitXor(a, b) ==
    XorBit(a, b, 0) + XorBit(a, b, 1) + XorBit(a, b, 2) + XorBit(a, b, 3)
    + XorBit(a, b, 4) + XorBit(a, b, 5) + XorBit(a, b, 6) + XorBit(a, b, 7)
    + XorBit(a, b, 8) + XorBit(a, b, 9) + XorBit(a, b, 10) + XorBit(a, b, 11)
    + XorBit(a, b, 12) + XorBit(a, b, 13) + XorBit(a, b, 14) + XorBit(a, b, 15)

CRC_POLY == 4129

\* one pass of the inner loop body, l.104-108, on a uint16_t
crcShift(crc) ==
    IF crc >= 32768
    THEN BitXor((crc * 2) % 65536, CRC_POLY)
    ELSE (crc * 2) % 65536

\* the inner loop, l.103-109: eight passes
crcBits(crc) ==
    crcShift(crcShift(crcShift(crcShift(crcShift(crcShift(crcShift(crcShift(crc))))))))

\* the outer loop, l.101-110, from byte i on
RECURSIVE crcFrom(_, _, _)
crcFrom(crc, data, i) ==
    IF i > Len(data) THEN crc
    ELSE LET next == crcBits(BitXor(crc, data[i] * 256))
         IN  IF next >= 0 THEN crcFrom(next, data, i + 1) ELSE 0

crc16(data) == crcFrom(0, data, 1)

-----------------------------------------------------------------------------
(* parseVESCResponse, l.133-206.  tel is the telemetry the function writes: *)
(* [vescVoltage, vescFetTemp, lastVoltageUpdate]; now is millis().          *)

\* (int16_t)((hi << 8) | lo)
int16(hi, lo) ==
    IF hi * 256 + lo >= 32768 THEN hi * 256 + lo - 65536 ELSE hi * 256 + lo

MIN_VOLTAGE_LENGTH == 31

\* a payload that just reaches the voltage taken for a values response
MIN_VALUES_PAYLOAD_short == MIN_VOLTAGE_LENGTH - 2

MIN_VALUES_PAYLOAD == 50

\* the voltage read at [26:28) of the payload, command byte included
voltageIndex_payload26 == 29 - 1

voltageIndex == 29

tempFetIndex == 3

\* l.155: the packet is taken for a COMM_GET_VALUES response
IsValuesResponse(data) ==
    /\ At(data, 1) >= MIN_VALUES_PAYLOAD
    /\ Len(data) >= At(data, 1) + 5

\* l.176-189: the three writes of the values branch
DecodeValues(data, tel, now) ==
    [vescVoltage |-> int16(At(data, voltageIndex), At(data, voltageIndex + 1)),
     vescFetTemp |-> int16(At(data, tempFetIndex), At(data, tempFetIndex + 1)),
     lastVoltageUpdate |-> now]

\* a heartbeat reply taken for fresh data
DecodeAlive_refresh(data, tel, now) == [tel EXCEPT !.lastVoltageUpdate = now]

\* l.197-198: the COMM_ALIVE branch only logs
DecodeAlive(data, tel, now) == tel

parseVESCResponse(data, tel, now) ==
    IF Len(data) < 6 THEN tel
    ELSE IF At(data, 0) = VESC_PACKET_START
    THEN IF IsValuesResponse(data)
         THEN IF Len(data) >= MIN_VOLTAGE_LENGTH
              THEN DecodeValues(data, tel, now)
              ELSE tel
         ELSE IF At(data, 2) = COMM_ALIVE
         THEN DecodeAlive(data, tel, now)
         ELSE tel
    ELSE tel

-----------------------------------------------------------------------------
(* notifyCallback, l.209-255.  The result is the buffer left behind, the    *)
(* telemetry, and the packets handed to parseVESCResponse, in order.        *)

MIN_PACKET_SIZE == 6

\* l.232 counting one byte more than the frame has
totalPacketLength_oneMore(payloadLength) == 2 + payloadLength + 3 + 1

\* l.232
totalPacketLength(payloadLength) == 2 + payloadLength + 3

\* the whole buffer thrown away when its first byte is no start byte
SkipToStart_all(buf) == <<>>

\* l.220-224: erase leading bytes until a start byte leads or nothing is left
SkipToStart(buf) ==
    IF \E i \in 1..Len(buf) : buf[i] = VESC_PACKET_START
    THEN LET first == CHOOSE i \in 1..Len(buf) :
                          /\ buf[i] = VESC_PACKET_START
                          /\ \A j \in 1..(i - 1) : buf[j] # VESC_PACKET_START
         IN  SubSeq(buf, first, Len(buf))
    ELSE <<>>

\* an incomplete packet thrown away instead of kept for the next notification
WaitForPacket_discard(buf) == <<>>

\* l.235-239: the buffer is kept as it is until the packet is complete
WaitForPacket(buf) == buf

\* l.252 erasing the length byte with the START
DropStart_twoBytes(buf) == Tail(Tail(buf))

\* l.252 left out: the candidate stays in the buffer
DropStart_keeps(buf) == buf

\* l.252: a packet without stop byte loses its start byte
DropStart(buf) == Tail(buf)

\* the whole buffer erased with the packet
DropPacket_all(buf, total) == <<>>

\* l.248
DropPacket(buf, total) == SubSeq(buf, total + 1, Len(buf))

\* l.218-254, the while loop
RECURSIVE ScanLoop(_, _, _, _)
ScanLoop(buf, tel, out, now) ==
    IF Len(buf) < MIN_PACKET_SIZE
    THEN [buf |-> buf, tel |-> tel, out |-> out]
    ELSE LET synced == IF At(buf, 0) # VESC_PACKET_START
                       THEN SkipToStart(buf) ELSE buf
         IN  IF Len(synced) < 2
             THEN [buf |-> synced, tel |-> tel, out |-> out]
             ELSE LET total == totalPacketLength(At(synced, 1))
                  IN  IF Len(synced) < total
                      THEN [buf |-> WaitForPacket(synced), tel |-> tel, out |-> out]
                      ELSE IF At(synced, total - 1) = VESC_PACKET_STOP
                      THEN LET packet == SubSeq(synced, 1, total)
                           IN  ScanLoop(DropPacket(synced, total),
                                        parseVESCResponse(packet, tel, now),
                                        Append(out, packet), now)
                      ELSE ScanLoop(DropStart(synced), tel, out, now)

\* l.213-215 then the loop
notifyCallback(pData, buf, tel, now) == ScanLoop(buf \o pData, tel, <<>>, now)

Telemetry ==
    [vescVoltage |-> vescVoltage, vescFetTemp |-> vescFetTemp,
     lastVoltageUpdate |-> lastVoltageUpdate]

\* the callback's effect on the program's variables
Notified(pData) ==
    LET r == notifyCallback(pData, rxBuffer, Telemetry, clock)
    IN  /\ rxBuffer' = r.buf
        /\ vescVoltage' = r.tel.vescVoltage
        /\ vescFetTemp' = r.tel.vescFetTemp
        /\ lastVoltageUpdate' = r.tel.lastVoltageUpdate

-----------------------------------------------------------------------------
(* The device: what it puts on the wire. *)

\* a frame as the VESC builds it: [START][LEN][PAYLOAD][CRC hi][CRC lo][STOP]
Frame(payload) ==
    <<VESC_PACKET_START, Len(payload)>> \o payload
        \o <<crc16(payload) \div 256, crc16(payload) % 256, VESC_PACKET_STOP>>

\* the same frame with the bytes crc on the wire in place of the checksum
FrameWithCrc(payload, crc) ==
    <<VESC_PACKET_START, Len(payload)>> \o payload
        \o <<crc \div 256, crc % 256, VESC_PACKET_STOP>>

Payload(frame) == SubSeq(frame, 3, Len(frame) - 3)

CrcOf(frame) == frame[Len(frame) - 2] * 256 + frame[Len(frame) - 1]

\* START, LEN, LEN payload bytes, two CRC bytes and STOP in place
WellFramed(frame) ==
    /\ Len(frame) >= 5
    /\ frame[1] = VESC_PACKET_START
    /\ Len(frame) = frame[2] + 5
    /\ frame[Len(frame)] = VESC_PACKET_STOP

ValidFrame(frame) == WellFramed(frame) /\ CrcOf(frame) = crc16(Payload(frame))

\* A COMM_GET_VALUES response: the command byte, then the values record with
\* temp_fet at [0:2) and v_in at [26:28) of the record; every other byte of
\* the payload is different from every other, so that an offset shows.
ValuesLen == MIN_VALUES_PAYLOAD

ValuesPayload(temp, volt) ==
    [i \in 1..ValuesLen |->
        IF i = 1 THEN COMM_GET_VALUES
        ELSE IF i = 2 THEN temp \div 256
        ELSE IF i = 3 THEN temp % 256
        ELSE IF i = 28 THEN volt \div 256
        ELSE IF i = 29 THEN volt % 256
        ELSE 100 + i]

\* 29 bytes laid out as the values record alone, v_in at [26:28)
ShortPayload(temp, volt) ==
    [i \in 1..29 |->
        IF i = 1 THEN temp \div 256
        ELSE IF i = 2 THEN temp % 256
        ELSE IF i = 27 THEN volt \div 256
        ELSE IF i = 28 THEN volt % 256
        ELSE 100 + i]

AliveFrame == Frame(<<COMM_ALIVE>>)
EmptyFrame == Frame(<<>>)
\* neither a heartbeat reply nor values; start and stop bytes in the payload
UnknownFrame == Frame(<<3, 2, 7>>)
ValuesFrameA == Frame(ValuesPayload(325, 200))
ValuesFrameB == Frame(ValuesPayload(65526, 420))
ShortFrame == Frame(ShortPayload(325, 200))
\* ValuesFrameA with a bit of its voltage flipped on the way, checksum as sent
CorruptFrame ==
    FrameWithCrc(ValuesPayload(325, 201), crc16(ValuesPayload(325, 200)))

ValidFrames ==
    {AliveFrame, EmptyFrame, UnknownFrame, ValuesFrameA, ValuesFrameB, ShortFrame}

\* runs of bytes none of which is the start byte
Garbage == {<<255>>, <<255, 255>>, <<255, 3, 0, 1, 255, 30, 255>>}

Messages == ValidFrames \cup {CorruptFrame} \cup Garbage

MaxMsgs == 2

MaxTicks == 2

-----------------------------------------------------------------------------
(* The millisecond clock: millis(). *)

VESC_DATA_REFRESH_MS == 300
VESC_DATA_STALE_TIMEOUT_MS == 5000
RECONNECT_INTERVAL_MS == 5000
CONNECTION_GRACE_PERIOD_MS == 10000

\* by how much the clock is seen to advance in one step
Deltas == {1, VESC_DATA_STALE_TIMEOUT_MS, CONNECTION_GRACE_PERIOD_MS}

\* where loop() sleeps or blocks: delay(50) at l.819; the connect and the
\* delays of connectToVESC at l.298-374, over when l.376 is reached; the
\* delay(500) at l.386
DelayPoints == {"end", "cv_set1", "cv_values"}

\* Time passes where loop() waits; the statements between take none, but for
\* the millisecond that may begin between the two reads of l.715.
Tick(d) ==
    /\ ticks < MaxTicks
    /\ pc \in DelayPoints \/ (d = 1 /\ pc = "st_2")
    /\ clock' = Add32(clock, d)
    /\ ticks' = ticks + 1
    /\ UNCHANGED <<rxBuffer, telemetryVars, linkVars, codecObs>>

-----------------------------------------------------------------------------
(* Frame codec: the device sends, the BLE stack notifies in chunks. *)

\* a connection is up and notifyCallback registered; nothing received yet
InitCodec ==
    /\ rxBuffer = <<>>
    /\ vescVoltage = 0
    /\ vescFetTemp = 0
    /\ lastVoltageUpdate = 0
    /\ isConnected = TRUE
    /\ isReconnecting = FALSE
    /\ lastReconnectAttempt = 0
    /\ lastConnectedDeviceIndex = 0
    /\ connectionStartTime = 0
    /\ selectedDeviceIndex = 0
    /\ nDevices = 1
    /\ pClient = TRUE
    /\ pRemoteCharacteristicRX = TRUE
    /\ lastRequest = 0
    /\ pc = "end"
    /\ cvIndex = 0
    /\ cvRet = "sel"
    /\ sendRet = "end"
    /\ command = 0
    /\ sendPacket = <<>>
    /\ firstRead = 0
    /\ readOrder = "millis"
    /\ timeSinceUpdate = 0
    /\ clock = 0
    /\ ticks = 0
    /\ linkUp = TRUE
    /\ notifying = TRUE
    /\ pendingDisc = "none"
    /\ wire = <<>>
    /\ nsent = 0
    /\ fed = <<>>
    /\ decoded = <<>>
    /\ fragmented = FALSE
    /\ scanning = FALSE
    /\ iterations = 0
    /\ scanFrom = 0
    /\ lastTaken = "none"
    /\ userQuit = FALSE
    /\ rateKind = "none"
    /\ rateAt = 0
    /\ retryNow = FALSE
    /\ cancelled = FALSE
    /\ lateNotify = FALSE

DeviceSend(m) ==
    /\ linkUp
    /\ wire = <<>>
    /\ nsent < MaxMsgs
    /\ wire' = m
    /\ nsent' = nsent + 1
    /\ UNCHANGED <<rxBuffer, telemetryVars, linkVars, timeVars,
                   fed, decoded, fragmented, scanObs>>

\* one notification carrying the next k bytes of the wire
DeliverChunk(k) ==
    /\ linkUp /\ notifying
    /\ k \in 1..Len(wire)
    /\ Notified(SubSeq(wire, 1, k))
    /\ wire' = SubSeq(wire, k + 1, Len(wire))
    /\ fed' = fed \o SubSeq(wire, 1, k)
    /\ decoded' = decoded \o
                  notifyCallback(SubSeq(wire, 1, k), rxBuffer, Telemetry, clock).out
    /\ fragmented' = (fragmented \/ k < Len(wire))
    /\ UNCHANGED <<linkVars, timeVars, nsent, scanObs>>

NextCodec ==
    \/ \E m \in Messages : DeviceSend(m)
    \/ \E k \in 1..Len(wire) : DeliverChunk(k)
    \/ Tick(1)

SpecCodec == InitCodec /\ [][NextCodec]_vars

\* the frames the device sends back to back
RECURSIVE Concat(_)
Concat(fs) == IF fs = <<>> THEN <<>> ELSE Head(fs) \o Concat(Tail(fs))

\* the frames sent in bursts: one of each kind
BurstFrames == {AliveFrame, EmptyFrame, UnknownFrame, ValuesFrameA}

\* two frames or more, up to the number of messages
Bursts == UNION {[1..n -> BurstFrames] : n \in 2..MaxMsgs}

\* the device sends several frames at once: they reach notifyCallback cut
\* anywhere, two of them or parts of two in one notification as well
DeviceBurst(fs) ==
    /\ linkUp
    /\ wire = <<>>
    /\ nsent = 0
    /\ wire' = Concat(fs)
    /\ nsent' = Len(fs)
    /\ UNCHANGED <<rxBuffer, telemetryVars, linkVars, timeVars,
                   fed, decoded, fragmented, scanObs>>

NextBurst ==
    \/ \E fs \in Bursts : DeviceBurst(fs)
    \/ \E k \in 1..Len(wire) : DeliverChunk(k)

SpecBurst == InitCodec /\ [][NextBurst]_vars

-----------------------------------------------------------------------------
(* notifyCallback one iteration of its loop at a time, on any bytes. *)

\* the bytes that steer the scan, as data and as length bytes
ScanBytes == {VESC_PACKET_START, VESC_PACKET_STOP, 0, 1}

\* how many of these bytes a connection receives
MaxFed == 7

\* the head of the longest frame there is, one byte short of complete
LongHead == <<VESC_PACKET_START, 255>> \o [i \in 1..257 |-> 0]

\* how many bytes may still come: two after the long head
Room ==
    IF Len(fed) >= Len(LongHead)
    THEN Len(LongHead) + 2 - Len(fed)
    ELSE MaxFed - Len(fed)

\* l.210-215: a notification arrives and its bytes are appended
Receive(pData) ==
    /\ linkUp /\ notifying
    /\ ~scanning
    /\ rxBuffer' = rxBuffer \o pData
    /\ fed' = fed \o pData
    /\ scanning' = TRUE
    /\ iterations' = 0
    /\ scanFrom' = Len(rxBuffer) + Len(pData)
    /\ UNCHANGED <<telemetryVars, linkVars, timeVars, wire, nsent, decoded,
                   fragmented>>

\* l.218-254: the test of the while loop and, when it holds, its body once
ScanStep ==
    /\ scanning
    /\ IF Len(rxBuffer) < MIN_PACKET_SIZE
       THEN /\ scanning' = FALSE
            /\ UNCHANGED <<rxBuffer, telemetryVars, decoded, iterations>>
       ELSE LET synced == IF At(rxBuffer, 0) # VESC_PACKET_START
                          THEN SkipToStart(rxBuffer) ELSE rxBuffer
            IN  /\ iterations' = iterations + 1
                /\ IF Len(synced) < 2
                   THEN /\ rxBuffer' = synced
                        /\ scanning' = FALSE
                        /\ UNCHANGED <<telemetryVars, decoded>>
                   ELSE LET total == totalPacketLength(At(synced, 1))
                        IN  IF Len(synced) < total
                            THEN /\ rxBuffer' = WaitForPacket(synced)
                                 /\ scanning' = FALSE
                                 /\ UNCHANGED <<telemetryVars, decoded>>
                            ELSE IF At(synced, total - 1) = VESC_PACKET_STOP
                            THEN LET packet == SubSeq(synced, 1, total)
                                     tel == parseVESCResponse(packet,
                                                Telemetry, clock)
                                 IN  /\ rxBuffer' = DropPacket(synced, total)
                                     /\ vescVoltage' = tel.vescVoltage
                                     /\ vescFetTemp' = tel.vescFetTemp
                                     /\ lastVoltageUpdate' =
                                            tel.lastVoltageUpdate
                                     /\ decoded' = Append(decoded, packet)
                                     /\ scanning' = TRUE
                            ELSE /\ rxBuffer' = DropStart(synced)
                                 /\ scanning' = TRUE
                                 /\ UNCHANGED <<telemetryVars, decoded>>
    /\ UNCHANGED <<linkVars, timeVars, wire, nsent, fed, fragmented,
                   scanFrom>>

NextScan ==
    \/ \E n \in 1..Room : \E pData \in [1..n -> ScanBytes] : Receive(pData)
    \/ fed = <<>> /\ Receive(LongHead)
    \/ ScanStep

SpecScan == InitCodec /\ [][NextScan]_vars

\* the BLE task runs the callback to its end
SpecScanFair == SpecScan /\ WF_vars(ScanStep)

-----------------------------------------------------------------------------
(* The BLE stack and the device, as the link state machine sees them. *)

MaxDevices == 1

\* pClient->disconnect(), l.321, 334, 343, 368, 739, 757: the link goes down,
\* its notifications with it, and the stack will call onDisconnect
Disconnect ==
    /\ linkUp' = FALSE
    /\ notifying' = FALSE
    /\ pendingDisc' = IF linkUp THEN "local" ELSE pendingDisc

\* delete pClient, l.285, 302, 322, 369: the client, its link and the events
\* it had not delivered are gone
DeleteClient ==
    /\ linkUp' = FALSE
    /\ pendingDisc' = "none"
    /\ notifying' = FALSE

\* the device goes out of range or is switched off
PeerDrop ==
    /\ linkUp
    /\ linkUp' = FALSE
    /\ notifying' = FALSE
    /\ pendingDisc' = "peer"
    /\ UNCHANGED <<rxBuffer, telemetryVars, flagVars, deviceVars, clientVars,
                   connectionStartTime, lastRequest, pc, localVars, linkObs,
                   timeVars, codecObs>>

\* onDisconnect without the test of l.265
IsUnexpected_always == TRUE

\* l.265: the disconnect is taken for an unexpected one
IsUnexpected == isConnected

\* MyClientCallbacks::onDisconnect, l.263-273
OnDisconnect ==
    /\ pendingDisc # "none"
    /\ pendingDisc' = "none"
    /\ IF IsUnexpected
       THEN /\ isConnected' = FALSE
            /\ isReconnecting' = TRUE
            /\ lastReconnectAttempt' = clock
            /\ lastTaken' = pendingDisc
            /\ rateKind' = "entry"
            /\ rateAt' = clock
       ELSE UNCHANGED <<flagVars, lastTaken, rateObs>>
    /\ UNCHANGED <<rxBuffer, telemetryVars, deviceVars, clientVars,
                   connectionStartTime, lastRequest, pc, localVars, linkUp,
                   notifying, userQuit, retryNow, cancelled, lateNotify,
                   timeVars, codecObs>>

\* what the device answers while the link state machine runs
LinkFrames == {ValuesFrameA, AliveFrame}

\* notifyCallback with a whole frame, l.209-255
NotifyFrame(f) ==
    /\ linkUp /\ notifying
    /\ Notified(f)
    /\ lateNotify' = (lateNotify \/ (/\ pc \in {"st_2", "st_chk"}
                                     /\ lastVoltageUpdate' # lastVoltageUpdate))
    /\ UNCHANGED <<flagVars, deviceVars, clientVars, connectionStartTime,
                   lastRequest, pc, localVars, transportVars, lastTaken,
                   userQuit, rateObs, retryNow, cancelled, timeVars,
                   codecObs>>

-----------------------------------------------------------------------------
(* sendVESCPacket, l.115-130: the guard, then the write. *)

\* l.116
MaySend == pRemoteCharacteristicRX /\ isConnected

\* the checksum taken over START and the length byte too
BuildPacket_crcOverHeader(cmd) ==
    LET crc == crc16(<<VESC_PACKET_START, 1, cmd>>)
    IN  <<VESC_PACKET_START, 1, cmd, (crc \div 256) % 256, crc % 256,
          VESC_PACKET_STOP>>

\* l.118-126: packet[0..5]
BuildPacket(cmd) ==
    LET crc == crc16(<<cmd>>)
    IN  <<VESC_PACKET_START, 1, cmd, (crc \div 256) % 256, crc % 256,
          VESC_PACKET_STOP>>

\* l.116-126: the guard, then the packet is built
SendChk ==
    /\ pc = "send_chk"
    /\ IF MaySend
       THEN /\ sendPacket' = BuildPacket(command)
            /\ pc' = "send_write"
       ELSE /\ pc' = sendRet
            /\ UNCHANGED sendPacket
    /\ UNCHANGED <<rxBuffer, telemetryVars, flagVars, deviceVars, clientVars,
                   connectionStartTime, lastRequest, cvIndex, cvRet, sendRet,
                   command, firstRead, readOrder, timeSinceUpdate,
                   transportVars, linkObs, timeVars, codecObs>>

\* l.128-129: pRemoteCharacteristicRX->writeValue(packet, 6), and the return
SendWrite ==
    /\ pc = "send_write"
    /\ pc' = sendRet
    /\ sendPacket' = <<>>
    /\ UNCHANGED <<rxBuffer, telemetryVars, flagVars, deviceVars, clientVars,
                   connectionStartTime, lastRequest, cvIndex, cvRet, sendRet,
                   command, firstRead, readOrder, timeSinceUpdate,
                   transportVars, linkObs, timeVars, codecObs>>

\* sendVESCPacket(c) called while connected, for any command byte
CallSend(c) ==
    /\ pc = "end"
    /\ command' = c
    /\ sendRet' = "end"
    /\ pc' = "send_chk"
    /\ UNCHANGED <<rxBuffer, telemetryVars, flagVars, deviceVars, clientVars,
                   connectionStartTime, lastRequest, cvIndex, cvRet,
                   sendPacket, firstRead, readOrder, timeSinceUpdate,
                   transportVars, linkObs, timeVars, codecObs>>

\* the command encoder alone: a connection is up, commands are sent
NextEncode ==
    \/ \E c \in Byte : CallSend(c)
    \/ SendChk
    \/ SendWrite

SpecEncode == InitCodec /\ [][NextEncode]_vars

-----------------------------------------------------------------------------
(* connectToVESC, l.277-393 *)

\* where connectToVESC returns to with false: both callers go on to the end
\* of loop() (l.699 and l.805-812)
CvFailed == "end"

\* l.278-292
CvStart ==
    /\ pc = "cv_start"
    /\ IF cvIndex >= nDevices
       THEN /\ pc' = CvFailed
            /\ UNCHANGED <<pClient, transportVars>>
       ELSE /\ DeleteClient
            /\ pClient' = TRUE
            /\ pc' = "cv_connect"
    /\ IF cvRet = "rc"
       THEN rateKind' = "attempt" /\ rateAt' = clock
       ELSE UNCHANGED rateObs
    /\ UNCHANGED <<rxBuffer, telemetryVars, flagVars, deviceVars,
                   pRemoteCharacteristicRX, connectionStartTime, lastRequest,
                   localVars, lastTaken, userQuit, retryNow, cancelled,
                   lateNotify, timeVars, codecObs>>

\* l.298-306: pClient->connect, with either address type
CvConnect(ok) ==
    /\ pc = "cv_connect"
    /\ IF ok
       THEN /\ linkUp' = TRUE
            /\ pc' = "cv_service"
            /\ UNCHANGED <<pClient, notifying, pendingDisc>>
       ELSE /\ DeleteClient
            /\ pClient' = FALSE
            /\ pc' = CvFailed
    /\ UNCHANGED <<rxBuffer, telemetryVars, flagVars, deviceVars,
                   pRemoteCharacteristicRX, connectionStartTime, lastRequest,
                   localVars, linkObs, timeVars, codecObs>>

CvResults == {"ok", "noService", "noTX", "noRX", "noNotify"}

\* l.313-372: the service, the two characteristics, the notifications
CvService(result) ==
    /\ pc = "cv_service"
    /\ result = "ok" => linkUp
    /\ CASE result = "ok" ->
              /\ pRemoteCharacteristicRX' = TRUE
              /\ notifying' = TRUE
              /\ pc' = "cv_set1"
              /\ UNCHANGED <<pClient, linkUp, pendingDisc>>
         [] result = "noService" ->
              /\ DeleteClient
              /\ pClient' = FALSE
              /\ pc' = CvFailed
              /\ UNCHANGED pRemoteCharacteristicRX
         [] result = "noTX" ->
              /\ Disconnect
              /\ pc' = CvFailed
              /\ UNCHANGED <<pClient, pRemoteCharacteristicRX>>
         [] result = "noRX" ->
              /\ Disconnect
              /\ pRemoteCharacteristicRX' = FALSE
              /\ pc' = CvFailed
              /\ UNCHANGED pClient
         [] result = "noNotify" ->
              /\ DeleteClient
              /\ pClient' = FALSE
              /\ pRemoteCharacteristicRX' = TRUE
              /\ pc' = CvFailed
    /\ UNCHANGED <<rxBuffer, telemetryVars, flagVars, deviceVars,
                   connectionStartTime, lastRequest, localVars, linkObs,
                   timeVars, codecObs>>

\* l.376
CvSet1 ==
    /\ pc = "cv_set1"
    /\ isConnected' = TRUE
    /\ lastTaken' = "none"
    /\ rateKind' = "none"
    /\ rateAt' = 0
    /\ pc' = "cv_set2"
    /\ UNCHANGED <<rxBuffer, telemetryVars, isReconnecting,
                   lastReconnectAttempt, deviceVars, clientVars,
                   connectionStartTime, lastRequest, localVars, transportVars,
                   userQuit, retryNow, cancelled, lateNotify, timeVars,
                   codecObs>>

\* connectToVESC without l.377: isReconnecting left as it was
CvSet2_keepsReconnecting ==
    /\ pc = "cv_set2"
    /\ lastConnectedDeviceIndex' = cvIndex
    /\ connectionStartTime' = clock
    /\ pc' = "cv_set3"
    /\ UNCHANGED <<rxBuffer, telemetryVars, isConnected, isReconnecting,
                   lastReconnectAttempt, selectedDeviceIndex, nDevices,
                   clientVars, lastRequest, localVars, transportVars,
                   linkObs, timeVars, codecObs>>

\* l.377-379
CvSet2 ==
    /\ pc = "cv_set2"
    /\ isReconnecting' = FALSE
    /\ lastConnectedDeviceIndex' = cvIndex
    /\ connectionStartTime' = clock
    /\ pc' = "cv_set3"
    /\ UNCHANGED <<rxBuffer, telemetryVars, isConnected, lastReconnectAttempt,
                   selectedDeviceIndex, nDevices, clientVars, lastRequest,
                   localVars, transportVars, linkObs, timeVars, codecObs>>

\* l.380 left out: the time of the last values frame is kept
CvSet3_keepsUpdate ==
    /\ pc = "cv_set3"
    /\ sendRet' = "cv_values"
    /\ command' = COMM_ALIVE
    /\ UNCHANGED sendPacket
    /\ pc' = "send_chk"
    /\ UNCHANGED <<rxBuffer, telemetryVars, flagVars, deviceVars,
                   clientVars, connectionStartTime, lastRequest, cvIndex,
                   cvRet, firstRead, readOrder, timeSinceUpdate,
                   transportVars, linkObs, timeVars, codecObs>>

\* l.380, and the call of sendVESCPacket(COMM_ALIVE) at l.385
CvSet3 ==
    /\ pc = "cv_set3"
    /\ lastVoltageUpdate' = clock
    /\ sendRet' = "cv_values"
    /\ command' = COMM_ALIVE
    /\ UNCHANGED sendPacket
    /\ pc' = "send_chk"
    /\ UNCHANGED <<rxBuffer, vescVoltage, vescFetTemp, flagVars, deviceVars,
                   clientVars, connectionStartTime, lastRequest, cvIndex,
                   cvRet, firstRead, readOrder, timeSinceUpdate,
                   transportVars, linkObs, timeVars, codecObs>>

\* l.386-392: delay(500), then sendVESCPacket(COMM_GET_VALUES), whose return
\* is the return of true to l.693 or to l.803
CvValues ==
    /\ pc = "cv_values"
    /\ sendRet' = IF cvRet = "rc" THEN "rc_ok1" ELSE "id_ok"
    /\ command' = COMM_GET_VALUES
    /\ UNCHANGED sendPacket
    /\ pc' = "send_chk"
    /\ UNCHANGED <<rxBuffer, telemetryVars, flagVars, deviceVars, clientVars,
                   connectionStartTime, lastRequest, cvIndex, cvRet,
                   firstRead, readOrder, timeSinceUpdate, transportVars,
                   linkObs, timeVars, codecObs>>

-----------------------------------------------------------------------------
(* loop(), l.666-820.  M5.BtnX.wasPressed() is an input of the step that    *)
(* reads it.                                                                *)

\* l.670: if (isReconnecting)
LoopTop ==
    /\ pc = "top"
    /\ pc' = IF isReconnecting THEN "rc_btnA" ELSE "chk_conn"
    /\ UNCHANGED <<rxBuffer, telemetryVars, flagVars, deviceVars, clientVars,
                   connectionStartTime, lastRequest, localVars, transportVars,
                   linkObs, timeVars, codecObs>>

\* l.713: else if (isConnected)
ChkConn ==
    /\ pc = "chk_conn"
    /\ pc' = IF isConnected THEN "st_1" ELSE "id_A"
    /\ UNCHANGED <<rxBuffer, telemetryVars, flagVars, deviceVars, clientVars,
                   connectionStartTime, lastRequest, localVars, transportVars,
                   linkObs, timeVars, codecObs>>

(* ---- the reconnecting state, l.671-711 *)

\* the cancel without l.676: the target is kept
RcBtnA_keepsTarget(pressed) ==
    /\ pc = "rc_btnA"
    /\ IF pressed
       THEN /\ isReconnecting' = FALSE
            /\ lastTaken' = "none"
            /\ rateKind' = "none"
            /\ rateAt' = 0
            /\ cancelled' = TRUE
       ELSE UNCHANGED <<isReconnecting, lastTaken, rateObs, cancelled>>
    /\ pc' = "rc_btnB"
    /\ UNCHANGED <<rxBuffer, telemetryVars, isConnected, lastReconnectAttempt,
                   deviceVars, clientVars, connectionStartTime, lastRequest,
                   localVars, transportVars, userQuit, retryNow, lateNotify,
                   timeVars, codecObs>>

\* l.672-678: cancel
RcBtnA(pressed) ==
    /\ pc = "rc_btnA"
    /\ IF pressed
       THEN /\ isReconnecting' = FALSE
            /\ lastConnectedDeviceIndex' = -1
            /\ lastTaken' = "none"
            /\ rateKind' = "none"
            /\ rateAt' = 0
            /\ cancelled' = TRUE
       ELSE UNCHANGED <<isReconnecting, lastConnectedDeviceIndex, lastTaken,
                        rateObs, cancelled>>
    /\ pc' = "rc_btnB"
    /\ UNCHANGED <<rxBuffer, telemetryVars, isConnected, lastReconnectAttempt,
                   selectedDeviceIndex, nDevices, clientVars,
                   connectionStartTime, lastRequest, localVars, transportVars,
                   userQuit, retryNow, lateNotify, timeVars, codecObs>>

\* l.680-683: retry now
RcBtnB(pressed) ==
    /\ pc = "rc_btnB"
    /\ lastReconnectAttempt' = IF pressed THEN 0 ELSE lastReconnectAttempt
    /\ retryNow' = pressed
    /\ IF pressed /\ isReconnecting
       THEN rateKind' = "manual" /\ rateAt' = clock
       ELSE UNCHANGED rateObs
    /\ pc' = "rc_int"
    /\ UNCHANGED <<rxBuffer, telemetryVars, isConnected, isReconnecting,
                   deviceVars, clientVars, connectionStartTime, lastRequest,
                   localVars, transportVars, lastTaken, userQuit, cancelled,
                   lateNotify, timeVars, codecObs>>

\* the interval taken for elapsed one millisecond early
IntervalElapsed_atBoundary(now) ==
    Sub32(now, lastReconnectAttempt) >= RECONNECT_INTERVAL_MS

\* l.686
IntervalElapsed(now) == Sub32(now, lastReconnectAttempt) > RECONNECT_INTERVAL_MS

\* l.691
HasTarget ==
    lastConnectedDeviceIndex >= 0 /\ lastConnectedDeviceIndex < nDevices

\* l.686-692 and l.701: the interval, and the call of connectToVESC
RcInterval ==
    /\ pc = "rc_int"
    /\ IF IntervalElapsed(clock)
       THEN /\ lastReconnectAttempt' = clock
            /\ IF HasTarget
               THEN /\ cvIndex' = lastConnectedDeviceIndex
                    /\ cvRet' = "rc"
                    /\ pc' = "cv_start"
               ELSE /\ pc' = "rc_lost"
                    /\ UNCHANGED <<cvIndex, cvRet>>
       ELSE /\ pc' = "end"
            /\ UNCHANGED <<lastReconnectAttempt, cvIndex, cvRet>>
    /\ retryNow' = FALSE
    /\ UNCHANGED <<rxBuffer, telemetryVars, isConnected, isReconnecting,
                   deviceVars, clientVars, connectionStartTime, lastRequest,
                   sendRet, command, sendPacket, firstRead, readOrder,
                   timeSinceUpdate, transportVars, lastTaken, userQuit,
                   rateObs, cancelled, lateNotify, timeVars, codecObs>>

\* l.702-706: the device is not in the list; performBLEScan (l.602-630)
RcLost(found) ==
    /\ pc = "rc_lost"
    /\ isReconnecting' = FALSE
    /\ nDevices' = found
    /\ pc' = "end"
    /\ UNCHANGED <<rxBuffer, telemetryVars, isConnected, lastReconnectAttempt,
                   lastConnectedDeviceIndex, selectedDeviceIndex, clientVars,
                   connectionStartTime, lastRequest, localVars, transportVars,
                   linkObs, timeVars, codecObs>>

\* l.693-695
RcOk1 ==
    /\ pc = "rc_ok1"
    /\ isReconnecting' = FALSE
    /\ pc' = "rc_ok2"
    /\ UNCHANGED <<rxBuffer, telemetryVars, isConnected, lastReconnectAttempt,
                   deviceVars, clientVars, connectionStartTime, lastRequest,
                   localVars, transportVars, linkObs, timeVars, codecObs>>

\* the reconnection also zeroes the readings
RcOk2_clearsTelemetry ==
    /\ pc = "rc_ok2"
    /\ connectionStartTime' = clock
    /\ lastVoltageUpdate' = clock
    /\ vescVoltage' = 0
    /\ vescFetTemp' = 0
    /\ pc' = "end"
    /\ UNCHANGED <<rxBuffer, flagVars, deviceVars, clientVars, lastRequest,
                   localVars, transportVars, linkObs, timeVars, codecObs>>

\* l.696-697
RcOk2 ==
    /\ pc = "rc_ok2"
    /\ connectionStartTime' = clock
    /\ lastVoltageUpdate' = clock
    /\ pc' = "end"
    /\ UNCHANGED <<rxBuffer, vescVoltage, vescFetTemp, flagVars, deviceVars,
                   clientVars, lastRequest, localVars, transportVars, linkObs,
                   timeVars, codecObs>>

(* ---- the connected state, l.714-775 *)

\* l.715, the first operand of millis() - lastVoltageUpdate: the order in
\* which the two are read is the compiler's
St1(order) ==
    /\ pc = "st_1"
    /\ readOrder' = order
    /\ firstRead' = IF order = "millis" THEN clock ELSE lastVoltageUpdate
    /\ pc' = "st_2"
    /\ UNCHANGED <<rxBuffer, telemetryVars, flagVars, deviceVars, clientVars,
                   connectionStartTime, lastRequest, cvIndex, cvRet, sendRet,
                   command, sendPacket, timeSinceUpdate, transportVars,
                   linkObs, timeVars, codecObs>>

\* l.715, the second operand and the subtraction; the temporaries end here
St2 ==
    /\ pc = "st_2"
    /\ timeSinceUpdate' = IF readOrder = "millis"
                          THEN Sub32(firstRead, lastVoltageUpdate)
                          ELSE Sub32(clock, firstRead)
    /\ firstRead' = 0
    /\ readOrder' = "millis"
    /\ pc' = "st_chk"
    /\ UNCHANGED <<rxBuffer, telemetryVars, flagVars, deviceVars, clientVars,
                   connectionStartTime, lastRequest, cvIndex, cvRet, sendRet,
                   command, sendPacket, transportVars, linkObs, timeVars,
                   codecObs>>

\* the grace period over at G, not after it
PastGrace_atBoundary(timeSinceConnection) ==
    timeSinceConnection >= CONNECTION_GRACE_PERIOD_MS

\* l.719
PastGrace(timeSinceConnection) ==
    timeSinceConnection > CONNECTION_GRACE_PERIOD_MS

\* the stale timeout counted from the end of the grace period
IsStale_afterGrace(sinceUpdate) ==
    sinceUpdate > CONNECTION_GRACE_PERIOD_MS + VESC_DATA_STALE_TIMEOUT_MS

\* l.720
IsStale(sinceUpdate) == sinceUpdate > VESC_DATA_STALE_TIMEOUT_MS

\* l.724
StaleAttemptTime(now) == now

\* l.716-733: timeSinceConnection and the staleness check, the last reader of
\* timeSinceUpdate
StChk ==
    /\ pc = "st_chk"
    /\ IF /\ PastGrace(Sub32(clock, connectionStartTime))
          /\ IsStale(timeSinceUpdate)
          /\ ~isReconnecting
       THEN /\ isConnected' = FALSE
            /\ isReconnecting' = TRUE
            /\ lastReconnectAttempt' = StaleAttemptTime(clock)
            /\ rateKind' = "entry"
            /\ rateAt' = clock
       ELSE UNCHANGED <<flagVars, rateObs>>
    /\ timeSinceUpdate' = 0
    /\ lateNotify' = FALSE
    /\ pc' = "cn_btnA"
    /\ UNCHANGED <<rxBuffer, telemetryVars, deviceVars, clientVars,
                   connectionStartTime, lastRequest, cvIndex, cvRet, sendRet,
                   command, sendPacket, firstRead, readOrder, transportVars,
                   lastTaken, userQuit, retryNow, cancelled, timeVars,
                   codecObs>>

\* l.736-740 and l.754-758: the button, and pClient->disconnect()
CnPress(at, pressed, then, else) ==
    /\ pc = at
    /\ IF pressed
       THEN /\ IF pClient THEN Disconnect ELSE UNCHANGED transportVars
            /\ userQuit' = TRUE
            /\ lastTaken' = "none"
            /\ rateKind' = "none"
            /\ rateAt' = 0
            /\ pc' = then
       ELSE /\ pc' = else
            /\ UNCHANGED <<transportVars, userQuit, lastTaken, rateObs>>
    /\ UNCHANGED <<rxBuffer, telemetryVars, flagVars, deviceVars, clientVars,
                   connectionStartTime, lastRequest, localVars, retryNow,
                   cancelled, lateNotify, timeVars, codecObs>>

\* l.741 and l.759
CnClear1(at, then) ==
    /\ pc = at
    /\ isConnected' = FALSE
    /\ pc' = then
    /\ UNCHANGED <<rxBuffer, telemetryVars, isReconnecting,
                   lastReconnectAttempt, deviceVars, clientVars,
                   connectionStartTime, lastRequest, localVars, transportVars,
                   linkObs, timeVars, codecObs>>

\* l.742-746 and l.760-764
CnClear2(at, then) ==
    /\ pc = at
    /\ isReconnecting' = FALSE
    /\ lastConnectedDeviceIndex' = -1
    /\ selectedDeviceIndex' = 0
    /\ pc' = then
    /\ UNCHANGED <<rxBuffer, telemetryVars, isConnected, lastReconnectAttempt,
                   nDevices, clientVars, connectionStartTime, lastRequest,
                   localVars, transportVars, linkObs, timeVars, codecObs>>

CnBtnA(pressed) == CnPress("cn_btnA", pressed, "cn_A1", "cn_btnB")
CnA1 == CnClear1("cn_A1", "cn_A2")
CnA2 == CnClear2("cn_A2", "cn_btnB")

\* l.749-752: request now
CnBtnB(pressed) ==
    /\ pc = "cn_btnB"
    /\ IF pressed
       THEN /\ sendRet' = "cn_btnC"
            /\ command' = COMM_GET_VALUES
            /\ UNCHANGED sendPacket
            /\ pc' = "send_chk"
       ELSE /\ pc' = "cn_btnC"
            /\ UNCHANGED <<sendRet, command, sendPacket>>
    /\ UNCHANGED <<rxBuffer, telemetryVars, flagVars, deviceVars, clientVars,
                   connectionStartTime, lastRequest, cvIndex, cvRet,
                   firstRead, readOrder, timeSinceUpdate, transportVars,
                   linkObs, timeVars, codecObs>>

CnBtnC(pressed) == CnPress("cn_btnC", pressed, "cn_C1", "cn_poll")
CnC1 == CnClear1("cn_C1", "cn_C2")
CnC2 == CnClear2("cn_C2", "cn_poll")

\* l.769
PollDue(now) == Sub32(now, lastRequest) > VESC_DATA_REFRESH_MS

\* l.768-772: the request is due; lastRequest = millis() follows the call,
\* in which no time passes
CnPoll ==
    /\ pc = "cn_poll"
    /\ IF PollDue(clock)
       THEN /\ sendRet' = "end"
            /\ command' = COMM_GET_VALUES
            /\ UNCHANGED sendPacket
            /\ lastRequest' = clock
            /\ pc' = "send_chk"
       ELSE /\ pc' = "end"
            /\ UNCHANGED <<sendRet, command, sendPacket, lastRequest>>
    /\ UNCHANGED <<rxBuffer, telemetryVars, flagVars, deviceVars, clientVars,
                   connectionStartTime, cvIndex, cvRet, firstRead, readOrder,
                   timeSinceUpdate, transportVars, linkObs, timeVars,
                   codecObs>>

(* ---- the scanning and selection state, l.778-816 *)

\* l.779-783: rescan; performBLEScan (l.602-630) finds found devices
AfterBtnA(pressed, found) ==
    IF pressed THEN [sel |-> 0, n |-> found]
    ELSE [sel |-> selectedDeviceIndex, n |-> nDevices]

\* l.785-791: next device
AfterBtnB(pressed, st) ==
    IF pressed /\ st.n > 0 THEN [st EXCEPT !.sel = (st.sel + 1) % st.n] ELSE st

\* l.779-815: the three buttons of the selection screen; on C, the call of
\* connectToVESC for the selected device
IdButtons(a, found, b, c) ==
    /\ pc = "id_A"
    /\ LET st == AfterBtnB(b, AfterBtnA(a, found))
       IN  /\ selectedDeviceIndex' = st.sel
           /\ nDevices' = st.n
           /\ IF c /\ st.n > 0 /\ st.sel < st.n
              THEN /\ cvIndex' = st.sel
                   /\ cvRet' = "sel"
                   /\ userQuit' = FALSE
                   /\ cancelled' = FALSE
                   /\ pc' = "cv_start"
              ELSE /\ pc' = "end"
                   /\ UNCHANGED <<cvIndex, cvRet, userQuit, cancelled>>
    /\ UNCHANGED <<rxBuffer, telemetryVars, flagVars,
                   lastConnectedDeviceIndex, clientVars, connectionStartTime,
                   lastRequest, sendRet, command, sendPacket, firstRead,
                   readOrder, timeSinceUpdate, transportVars, lastTaken,
                   rateObs, retryNow, lateNotify, timeVars, codecObs>>

\* l.802-804: connectToVESC has returned true to the selection screen
IdOk ==
    /\ pc = "id_ok"
    /\ pc' = "end"
    /\ UNCHANGED <<rxBuffer, telemetryVars, flagVars, deviceVars, clientVars,
                   connectionStartTime, lastRequest, localVars, transportVars,
                   linkObs, timeVars, codecObs>>

\* l.819: delay(50), and loop() is called again; its locals are dead
LoopEnd ==
    /\ pc = "end"
    /\ pc' = "top"
    /\ cvIndex' = 0
    /\ cvRet' = "sel"
    /\ sendRet' = "end"
    /\ command' = 0
    /\ sendPacket' = <<>>
    /\ firstRead' = 0
    /\ readOrder' = "millis"
    /\ timeSinceUpdate' = 0
    /\ UNCHANGED <<rxBuffer, telemetryVars, flagVars, deviceVars, clientVars,
                   connectionStartTime, lastRequest, transportVars, linkObs,
                   timeVars, codecObs>>

-----------------------------------------------------------------------------
(* The link state machine: loop() in the loop task, onDisconnect and        *)
(* notifyCallback in the BLE task, the device, the clock.                   *)

\* after setup(), l.632-664: the globals as declared, the first scan done,
\* millis() at now
AfterSetup(now) ==
    /\ rxBuffer = <<>>
    /\ vescVoltage = 0
    /\ vescFetTemp = 0
    /\ lastVoltageUpdate = 0
    /\ isConnected = FALSE
    /\ isReconnecting = FALSE
    /\ lastReconnectAttempt = 0
    /\ lastConnectedDeviceIndex = -1
    /\ connectionStartTime = 0
    /\ selectedDeviceIndex = 0
    /\ nDevices \in 0..MaxDevices
    /\ pClient = FALSE
    /\ pRemoteCharacteristicRX = FALSE
    /\ lastRequest = 0
    /\ pc = "top"
    /\ cvIndex = 0
    /\ cvRet = "sel"
    /\ sendRet = "end"
    /\ command = 0
    /\ sendPacket = <<>>
    /\ firstRead = 0
    /\ readOrder = "millis"
    /\ timeSinceUpdate = 0
    /\ clock = now
    /\ ticks = 0
    /\ linkUp = FALSE
    /\ notifying = FALSE
    /\ pendingDisc = "none"
    /\ wire = <<>>
    /\ nsent = 0
    /\ fed = <<>>
    /\ decoded = <<>>
    /\ fragmented = FALSE
    /\ scanning = FALSE
    /\ iterations = 0
    /\ scanFrom = 0
    /\ lastTaken = "none"
    /\ userQuit = FALSE
    /\ rateKind = "none"
    /\ rateAt = 0
    /\ retryNow = FALSE
    /\ cancelled = FALSE
    /\ lateNotify = FALSE

\* the program starts with millis() at 0
InitLink == AfterSetup(0)

\* the program has been up for long: millis() wraps in a little more than a
\* grace period
InitWrap == AfterSetup(ULONG_MOD - CONNECTION_GRACE_PERIOD_MS - 1)

LoopStep ==
    \/ LoopTop
    \/ ChkConn
    \/ \E pressed \in BOOLEAN : RcBtnA(pressed)
    \/ \E pressed \in BOOLEAN : RcBtnB(pressed)
    \/ RcInterval
    \/ \E found \in 0..MaxDevices : RcLost(found)
    \/ RcOk1
    \/ RcOk2
    \/ CvStart
    \/ \E ok \in BOOLEAN : CvConnect(ok)
    \/ \E result \in CvResults : CvService(result)
    \/ CvSet1
    \/ CvSet2
    \/ CvSet3
    \/ CvValues
    \/ SendChk
    \/ SendWrite
    \/ \E order \in {"millis", "lvu"} : St1(order)
    \/ St2
    \/ StChk
    \/ \E pressed \in BOOLEAN : CnBtnA(pressed)
    \/ CnA1
    \/ CnA2
    \/ \E pressed \in BOOLEAN : CnBtnB(pressed)
    \/ \E pressed \in BOOLEAN : CnBtnC(pressed)
    \/ CnC1
    \/ CnC2
    \/ CnPoll
    \/ \E a, b, c \in BOOLEAN : \E found \in 0..MaxDevices :
           IdButtons(a, found, b, c)
    \/ IdOk
    \/ LoopEnd

NextLink ==
    \/ LoopStep
    \/ OnDisconnect
    \/ PeerDrop
    \/ \E f \in LinkFrames : NotifyFrame(f)
    \/ \E d \in Deltas : Tick(d)

SpecLink == InitLink /\ [][NextLink]_vars

SpecWrap == InitWrap /\ [][NextLink]_vars

-----------------------------------------------------------------------------
(* Observations used by the properties. *)

\* what one call of notifyCallback on an empty buffer makes of bytes
Alone(bytes) == notifyCallback(bytes, <<>>, Telemetry, clock)

\* the packets handed to parseVESCResponse in this step
NewPackets == SubSeq(decoded', Len(decoded) + 1, Len(decoded'))

\* the last packet of packets whose length byte is at least n
HasPayloadOf(packets, n) == \E i \in 1..Len(packets) : packets[i][2] >= n

LastWithPayloadOf(packets, n) ==
    packets[CHOOSE i \in 1..Len(packets) :
                /\ packets[i][2] >= n
                /\ \A j \in (i + 1)..Len(packets) : packets[j][2] < n]

\* a ^ b on n bits
RECURSIVE XorN(_, _, _)
XorN(a, b, n) ==
    IF n = 0 THEN 0
    ELSE ((a + b) % 2) + 2 * XorN(a \div 2, b \div 2, n - 1)

\* x^16 + x^12 + x^5 + 1
CcittPolynomial == Pow2(16) + Pow2(12) + Pow2(5) + 1

\* v with its bits k down to 16 cleared by subtracting (xor) multiples of the
\* polynomial: long division over GF(2)
RECURSIVE PolyRem(_, _)
PolyRem(v, k) ==
    IF k < 16 THEN v
    ELSE PolyRem(IF (v \div Pow2(k)) % 2 = 1
                 THEN XorN(v, CcittPolynomial * Pow2(k - 16), 24)
                 ELSE v,
                 k - 1)

\* the CCITT checksum of the one byte c, initial value 0, MSB first, no final
\* xor: the remainder of c * x^16 by the polynomial
CcittOfByte(c) == PolyRem(c * Pow2(16), 23)

(* The reads of notifyCallback and parseVESCResponse: each read is the pair  *)
(* of the index read and the length of the sequence it is read from.        *)

\* l.137-139: the dump of the first 64 bytes
DumpReads(data) ==
    {<<i, Len(data)>> : i \in {j \in 0..63 : j < Len(data)}}

\* l.170-174: data[i] and data[i+1] for i = 3, 5, ... while i < 35 and
\* i < length
DiagnosticReads(data) ==
    UNION {{<<i, Len(data)>>, <<i + 1, Len(data)>>} :
              i \in {j \in 3..34 : j % 2 = 1 /\ j < Len(data)}}

\* l.166-192: the reads of the values branch
ValuesReads(data) ==
    {<<i, Len(data)>> :
        i \in {0, 1, 2, voltageIndex, voltageIndex + 1, tempFetIndex,
               tempFetIndex + 1, 5, 6}}
    \cup DiagnosticReads(data)

\* l.133-206
ParseReads(data) ==
    IF Len(data) < 6 THEN {}
    ELSE DumpReads(data) \cup {<<0, Len(data)>>} \cup
         IF At(data, 0) = VESC_PACKET_START
         THEN {<<1, Len(data)>>} \cup
              IF IsValuesResponse(data)
              THEN IF Len(data) >= MIN_VOLTAGE_LENGTH
                   THEN ValuesReads(data)
                   ELSE {}
              ELSE {<<2, Len(data)>>}
         ELSE {}

\* l.218-254: rxBuffer[0] on every buffer the skipping of l.220-224 goes
\* through, rxBuffer[1], rxBuffer[totalPacketLength - 1], and the reads of
\* parseVESCResponse on the packet
RECURSIVE ScanReads(_)
ScanReads(buf) ==
    IF Len(buf) < MIN_PACKET_SIZE THEN {}
    ELSE LET synced == IF At(buf, 0) # VESC_PACKET_START
                       THEN SkipToStart(buf) ELSE buf
             skipped == {<<0, n>> : n \in {m \in Len(synced)..Len(buf) : m > 0}}
         IN  skipped \cup
             IF Len(synced) < 2 THEN {}
             ELSE LET total == totalPacketLength(At(synced, 1))
                  IN  {<<1, Len(synced)>>} \cup
                      IF Len(synced) < total THEN {}
                      ELSE {<<total - 1, Len(synced)>>} \cup
                           IF At(synced, total - 1) = VESC_PACKET_STOP
                           THEN ParseReads(SubSeq(synced, 1, total))
                                   \cup ScanReads(DropPacket(synced, total))
                           ELSE ScanReads(DropStart(synced))

\* l.213-215 then the loop
NotifyReads(pData, buf) == ScanReads(buf \o pData)

\* the bytes handed to notifyCallback in this step
NewBytes == SubSeq(fed', Len(fed) + 1, Len(fed'))

\* s as the valid frames it is made of, back to back: each frame is as long
\* as its length byte says and carries the checksum of its payload
RECURSIVE FramesOf(_)
FramesOf(s) ==
    IF s = <<>> THEN [ok |-> TRUE, frames |-> <<>>]
    ELSE IF /\ Len(s) >= 5
            /\ Len(s) >= s[2] + 5
            /\ ValidFrame(SubSeq(s, 1, s[2] + 5))
         THEN LET rest == FramesOf(SubSeq(s, s[2] + 6, Len(s)))
              IN  [ok |-> rest.ok,
                   frames |-> <<SubSeq(s, 1, s[2] + 5)>> \o rest.frames]
         ELSE [ok |-> FALSE, frames |-> <<>>]

\* all of fs but the last
Front(fs) == SubSeq(fs, 1, Len(fs) - 1)

\* this step is notifyCallback handing a values response to parseVESCResponse,
\* which writes the three fields (l.176-189)
ValuesDecoded ==
    \E f \in LinkFrames :
        /\ IsValuesResponse(f)
        /\ linkUp /\ notifying
        /\ vescVoltage' = DecodeValues(f, Telemetry, clock).vescVoltage
        /\ vescFetTemp' = DecodeValues(f, Telemetry, clock).vescFetTemp
        /\ lastVoltageUpdate' = clock
        /\ UNCHANGED <<flagVars, deviceVars, clientVars, connectionStartTime,
                       lastRequest, pc, localVars, transportVars, timeVars>>

\* loop() is between the press of l.736 or l.754 and the end of its clearing
\* statements, l.741-746 or l.759-764
Clearing == {"cn_A1", "cn_A2", "cn_C1", "cn_C2"}

\* loop() is in the branch of l.670-711
ReconnectingBranch ==
    {"rc_btnA", "rc_btnB", "rc_int", "rc_lost", "rc_ok1", "rc_ok2"}

-----------------------------------------------------------------------------
(* C1 as stated: whenever the bytes fed so far, from an empty buffer and in *)
(* whatever chunks, are exactly one valid frame, exactly that frame has     *)
(* been handed to the decoder and the buffer is empty.                      *)
C1_OneFrameForEveryValidFrame ==
    \A f \in ValidFrames :
        fed = f => decoded = <<f>> /\ rxBuffer = <<>>

(* C1 amended: whenever the bytes fed so far, in whatever chunks, are       *)
(* exactly one valid frame, the packets handed to the decoder, the buffer   *)
(* left and the decoded values are those of a single call with the whole    *)
(* frame; for a frame with LEN >= 1 that is exactly the frame and the empty *)
(* buffer (the 5-byte frame with LEN = 0 stays buffered, handed to nobody). *)
C1_FragmentationInvariance ==
    \A f \in ValidFrames :
        fed = f =>
            /\ decoded = Alone(f).out
            /\ rxBuffer = Alone(f).buf
            /\ vescVoltage = Alone(f).tel.vescVoltage
            /\ vescFetTemp = Alone(f).tel.vescFetTemp
            /\ f[2] >= 1 => decoded = <<f>> /\ rxBuffer = <<>>
            /\ f[2] = 0 => decoded = <<>> /\ rxBuffer = f

\* a values frame that arrived in several notifications has been decoded
C1_Witness ==
    /\ fed = ValuesFrameA
    /\ fragmented
    /\ decoded = <<ValuesFrameA>>
    /\ rxBuffer = <<>>

-----------------------------------------------------------------------------
(* C2 as stated: after a non-empty run of bytes none of which is START,     *)
(* followed by a valid frame, exactly that frame has been handed to the     *)
(* decoder, which is what feeding the frame alone yields.                   *)
C2_ResyncSameAsFrameAlone ==
    \A g \in Garbage : \A f \in ValidFrames :
        fed = g \o f => decoded = <<f>> /\ decoded = Alone(f).out

(* C2 amended: the same for every valid frame with LEN >= 1: the garbage is *)
(* discarded, the frame is handed over once, the buffer is left empty, and  *)
(* that is what the frame alone yields.                                     *)
C2_Resynchronization ==
    \A g \in Garbage : \A f \in ValidFrames :
        (fed = g \o f /\ f[2] >= 1) =>
            /\ decoded = <<f>>
            /\ rxBuffer = <<>>
            /\ decoded = Alone(f).out

\* garbage, then a values frame, decoded
C2_Witness ==
    /\ fed = <<255, 255>> \o ValuesFrameA
    /\ decoded = <<ValuesFrameA>>
    /\ vescVoltage = 200

-----------------------------------------------------------------------------
(* C3: every packet handed to the decoder carries the checksum of its       *)
(* payload, so a candidate frame with other CRC bytes is never decoded.     *)
C3_DecodedFramesPassCrc ==
    \A i \in 1..Len(decoded) :
        CrcOf(decoded[i]) = crc16(Payload(decoded[i]))

-----------------------------------------------------------------------------
(* C4: when onDisconnect has taken a disconnect that the user did not ask   *)
(* for (the device dropped the link while isConnected was true), then at    *)
(* every later start of loop(), until a connection is made again or the     *)
(* user cancels or disconnects, the machine is Reconnecting: isReconnecting *)
(* is true and isConnected false.                                           *)
C4_UnexpectedDisconnectReconnects ==
    (pc = "top" /\ lastTaken = "peer") => (isReconnecting /\ ~isConnected)

-----------------------------------------------------------------------------
(* C5: once the user has pressed Disconnect (A) or Back (C) in the          *)
(* connected branch and the handler's clearing statements have run, and     *)
(* until the user connects again, the machine is Idle (isConnected false,   *)
(* isReconnecting false, lastConnectedDeviceIndex = -1) and loop() is not   *)
(* in its reconnecting branch, wherever onDisconnect ran in between.        *)
C5_UserDisconnectEndsIdle ==
    (userQuit /\ pc \notin Clearing) =>
        /\ ~isConnected
        /\ ~isReconnecting
        /\ lastConnectedDeviceIndex = -1
        /\ pc \notin ReconnectingBranch

\* onDisconnect ran between pClient->disconnect() and isConnected = false,
\* took the disconnect for an unexpected one, and the handler still ended Idle
C5_Witness ==
    /\ pc = "top"
    /\ userQuit
    /\ lastTaken = "local"
    /\ ~isConnected
    /\ ~isReconnecting
    /\ lastConnectedDeviceIndex = -1

-----------------------------------------------------------------------------
(* C6: the staleness check of l.719, run when the time since                *)
(* connectionStartTime is at most CONNECTION_GRACE_PERIOD_MS, leaves        *)
(* isConnected, isReconnecting and lastReconnectAttempt as they were,       *)
(* whatever the age of lastVoltageUpdate.                                   *)
C6_GracePeriodSafety ==
    [][(/\ pc = "st_chk"
        /\ pc' = "cn_btnA"
        /\ Sub32(clock, connectionStartTime) <= CONNECTION_GRACE_PERIOD_MS)
       => UNCHANGED <<isConnected, isReconnecting, lastReconnectAttempt>>]_vars

\* the check has run exactly G after connecting, no data received since
\* (so the data is G old, more than the stale timeout): still Connected
C6_Witness ==
    /\ pc = "cn_btnA"
    /\ isConnected
    /\ ~isReconnecting
    /\ lastVoltageUpdate = connectionStartTime
    /\ Sub32(clock, connectionStartTime) = CONNECTION_GRACE_PERIOD_MS

-----------------------------------------------------------------------------
(* C7: the staleness check of l.719, run while Connected and more than      *)
(* CONNECTION_GRACE_PERIOD_MS after connectionStartTime, with the           *)
(* millis() - lastVoltageUpdate of this tick (l.715) more than              *)
(* VESC_DATA_STALE_TIMEOUT_MS, makes the machine Reconnecting with          *)
(* lastReconnectAttempt the time of the check; and with lastVoltageUpdate   *)
(* still at connectionStartTime = T, the check run at T + G + S + 1 or      *)
(* later makes the machine Reconnecting.                                    *)
C7_StalenessResponse ==
    [][(/\ pc = "st_chk"
        /\ pc' = "cn_btnA"
        /\ isConnected
        /\ ~isReconnecting
        /\ Sub32(clock, connectionStartTime) > CONNECTION_GRACE_PERIOD_MS)
       => /\ timeSinceUpdate > VESC_DATA_STALE_TIMEOUT_MS
             => /\ isReconnecting'
                /\ ~isConnected'
                /\ lastReconnectAttempt' = clock
          /\ (/\ lastVoltageUpdate = connectionStartTime
              /\ Sub32(clock, connectionStartTime) >=
                     CONNECTION_GRACE_PERIOD_MS + VESC_DATA_STALE_TIMEOUT_MS + 1)
             => (isReconnecting' /\ ~isConnected')]_vars

\* no data since connecting, no disconnect event taken: the check run at
\* T + G + S + 1 or later has made the machine Reconnecting
C7_Witness ==
    /\ pc = "cn_btnA"
    /\ isReconnecting
    /\ ~isConnected
    /\ lastTaken = "none"
    /\ lastReconnectAttempt = clock
    /\ lastVoltageUpdate = connectionStartTime
    /\ Sub32(clock, connectionStartTime) >=
           CONNECTION_GRACE_PERIOD_MS + VESC_DATA_STALE_TIMEOUT_MS + 1

-----------------------------------------------------------------------------
(* C8: whenever sendVESCPacket is at its writeValue (l.128), from whichever *)
(* call site, isConnected is true.                                          *)
C8_WritesOnlyWhileConnected == pc = "send_write" => isConnected

-----------------------------------------------------------------------------
(* C11 as stated: in every step of the link state machine, the voltage, the *)
(* FET temperature and lastVoltageUpdate change only when the decoder takes *)
(* a values frame; no step of loop(), connectToVESC or onDisconnect writes  *)
(* any of them.                                                             *)
C11_OnlyDecoderWritesTelemetry ==
    [][telemetryVars' # telemetryVars => ValuesDecoded]_vars

(* C11 amended: the voltage and the FET temperature change only when the    *)
(* decoder takes a values frame; lastVoltageUpdate changes only there and   *)
(* in the two statements of a successful connect that set it to the time    *)
(* (l.380 in connectToVESC, l.697 after a reconnection).                    *)
C11_TelemetryWriters ==
    [][/\ <<vescVoltage, vescFetTemp>>' # <<vescVoltage, vescFetTemp>>
          => ValuesDecoded
       /\ lastVoltageUpdate' # lastVoltageUpdate
          => \/ ValuesDecoded
             \/ /\ pc \in {"cv_set3", "rc_ok2"}
                /\ lastVoltageUpdate' = clock]_vars

\* a reconnection has succeeded, later than the values decoded before the
\* link was lost: the readings are kept, lastVoltageUpdate is the time
C11_Witness ==
    /\ pc = "end"
    /\ cvRet = "rc"
    /\ isConnected
    /\ vescVoltage = 200
    /\ vescFetTemp = 325
    /\ lastVoltageUpdate = clock
    /\ connectionStartTime = clock
    /\ clock > 0

-----------------------------------------------------------------------------
(* C12: for every command byte c, the packet sendVESCPacket(c) hands to     *)
(* writeValue is the 6 bytes 0x02, 0x01, c, CRC high, CRC low, 0x03, where  *)
(* CRC is the 16-bit CCITT checksum (polynomial 0x1021, initial value 0,    *)
(* MSB first, no final xor) of the single byte c.                           *)
C12_CommandEncoding ==
    pc = "send_write" =>
        sendPacket = <<2, 1, command,
                       CcittOfByte(command) \div 256,
                       CcittOfByte(command) % 256, 3>>

\* the heartbeat on its way out: 02 01 1E F3 FF 03
C12_Witness ==
    /\ pc = "send_write"
    /\ command = 30
    /\ sendPacket = <<2, 1, 30, 243, 255, 3>>

-----------------------------------------------------------------------------
(* C13: when l.692 calls connectToVESC for the target, more than            *)
(* RECONNECT_INTERVAL_MS have passed since the previous such call if        *)
(* nothing else happened in between, and at least RECONNECT_INTERVAL_MS     *)
(* since Reconnecting was entered if this is the first call after the       *)
(* entry; a call that follows a press of "retry now" is not an automatic    *)
(* one.                                                                     *)
C13_ReconnectRateLimit ==
    (pc = "cv_start" /\ cvRet = "rc") =>
        /\ rateKind = "attempt" => Sub32(clock, rateAt) > RECONNECT_INTERVAL_MS
        /\ rateKind = "entry" => Sub32(clock, rateAt) >= RECONNECT_INTERVAL_MS

\* the second automatic attempt in a row is being issued, after a disconnect
\* that the peer caused
C13_Witness ==
    /\ pc = "cv_start" /\ cvRet = "rc"
    /\ rateKind = "attempt"
    /\ lastTaken = "peer"
    /\ isReconnecting

-----------------------------------------------------------------------------
(* C14: the step of l.686 that follows a press of "retry now" (l.680) in    *)
(* the same iteration of loop(), with the machine in Reconnecting and the   *)
(* target in the list, calls connectToVESC, whatever millis() returns.      *)
C14_RetryNowIsImmediate ==
    [][(pc = "rc_int" /\ pc' # "rc_int" /\ retryNow /\ isReconnecting
           /\ HasTarget)
          => pc' = "cv_start"]_vars

-----------------------------------------------------------------------------
\* connectToVESC has returned true, to l.803 or to l.693, and loop() has not
\* slept since
ConnectReturned ==
    \/ pc \in {"id_ok", "rc_ok1", "rc_ok2"}
    \/ pc = "end" /\ sendRet = "rc_ok1"

(* C15: right after l.376-380, in a connect from the selection screen or    *)
(* from Reconnecting, connectionStartTime and lastVoltageUpdate are both    *)
(* the current time; and when connectToVESC has returned true, unless       *)
(* onDisconnect has taken a disconnect since l.376, the machine is          *)
(* Connected, isReconnecting is false, and lastVoltageUpdate is not older   *)
(* than connectionStartTime, which is the start of the grace period.        *)
C15_SuccessfulConnectResets ==
    /\ (pc = "send_chk" /\ sendRet = "cv_values") =>
          /\ connectionStartTime = clock
          /\ lastVoltageUpdate = clock
          /\ lastTaken = "none" => (isConnected /\ ~isReconnecting)
    /\ (ConnectReturned /\ lastTaken = "none") =>
          /\ isConnected /\ ~isReconnecting
          /\ Sub32(clock, lastVoltageUpdate)
                <= Sub32(clock, connectionStartTime)

\* a connect from Reconnecting has returned true, later than the first
\* connect and with no disconnect since
C15_Witness ==
    /\ pc = "rc_ok1"
    /\ lastTaken = "none"
    /\ isConnected /\ ~isReconnecting
    /\ connectionStartTime # 0
    /\ Sub32(clock, connectionStartTime) > 0

-----------------------------------------------------------------------------
(* C16: a step in which isReconnecting goes from true to false is the       *)
(* cancel of l.672-678 (or the Disconnect or Back of the connected screen)  *)
(* or belongs to a connect that succeeded (l.377, l.694).                   *)
C16_LeavesReconnectingOnlyByConnectOrCancel ==
    [][(isReconnecting /\ ~isReconnecting')
          => pc \in {"rc_btnA", "cn_A2", "cn_C2", "cv_set2", "rc_ok1"}]_vars

-----------------------------------------------------------------------------
\* inside connectToVESC, or at its return with true
Connecting ==
    \/ pc \in {"cv_start", "cv_connect", "cv_service", "cv_set1", "cv_set2",
               "cv_set3", "cv_values", "rc_ok1", "rc_ok2", "id_ok"}
    \/ pc \in {"send_chk", "send_write"}
          /\ sendRet \in {"cv_values", "rc_ok1", "id_ok"}

(* C17: from the cancel of l.672-678 until the user asks for a connection   *)
(* on the selection screen, the machine is Idle (isConnected and            *)
(* isReconnecting false), there is no target (lastConnectedDeviceIndex =    *)
(* -1), and loop() is not in connectToVESC, in the iteration of the cancel  *)
(* or later, whether the interval has elapsed or "retry now" was pressed.   *)
C17_CancelEndsReconnecting ==
    cancelled =>
        /\ ~isConnected /\ ~isReconnecting
        /\ lastConnectedDeviceIndex = -1
        /\ ~Connecting

\* the cancel and "retry now" pressed in the same iteration, and the
\* interval elapsed as well: l.686 is about to be passed
C17_Witness ==
    /\ cancelled
    /\ pc = "rc_int"
    /\ retryNow
    /\ IntervalElapsed(clock)
    /\ nDevices > 0

-----------------------------------------------------------------------------
\* what the loop of l.218-254, run to its end, leaves of buf
ScanResult(buf) == ScanLoop(buf, Telemetry, <<>>, clock).buf

\* a step of the loop leaves the outcome of the whole loop as it was
ScanStepsMakeTheLoop ==
    [][scanning => (scanning' /\ ScanResult(rxBuffer') = ScanResult(rxBuffer))
                   \/ (~scanning' /\ rxBuffer' = ScanResult(rxBuffer))]_vars

\* a reading of millis() taken in a run that starts at InitWrap, as a time
\* that does not wrap: the readings before the wrap are the large ones
Unwrapped(t) == IF t < Pow2(29) THEN t + ULONG_MOD ELSE t

\* the time that has really passed since the reading since was taken
Elapsed(since) == Unwrapped(clock) - Unwrapped(since)

(* C18: the staleness check of l.719, run while Connected, leaves the       *)
(* machine Connected when the time that has really passed since             *)
(* connectionStartTime is at most CONNECTION_GRACE_PERIOD_MS, or the time   *)
(* that has really passed since lastVoltageUpdate is at most                *)
(* VESC_DATA_STALE_TIMEOUT_MS, also when millis() has wrapped in between    *)
(* (notifyCallback not having written lastVoltageUpdate while l.715-719     *)
(* ran).                                                                    *)
C18_WraparoundSafety ==
    [][(/\ pc = "st_chk"
        /\ pc' = "cn_btnA"
        /\ isConnected
        /\ ~isReconnecting
        /\ ~lateNotify
        /\ \/ Elapsed(connectionStartTime) <= CONNECTION_GRACE_PERIOD_MS
           \/ Elapsed(lastVoltageUpdate) <= VESC_DATA_STALE_TIMEOUT_MS)
       => (isConnected' /\ ~isReconnecting')]_vars

\* the check has run after the wrap, past the grace period, on a values
\* frame decoded before the wrap and not older than the stale timeout: still
\* Connected
C18_Witness ==
    /\ pc = "cn_btnA"
    /\ isConnected
    /\ ~isReconnecting
    /\ lastVoltageUpdate >= Pow2(29)
    /\ clock < Pow2(29)
    /\ Elapsed(connectionStartTime) > CONNECTION_GRACE_PERIOD_MS
    /\ Elapsed(lastVoltageUpdate) <= VESC_DATA_STALE_TIMEOUT_MS
    /\ vescVoltage # 0

-----------------------------------------------------------------------------
(* C19: in every call of notifyCallback, whatever the bytes received so far *)
(* and however they were cut into notifications, every index read on        *)
(* rxBuffer (0, 1, totalPacketLength - 1) and every index read by           *)
(* parseVESCResponse on the packet (0..6, 29, 30, the dump, the diagnostic  *)
(* reads at i and i + 1) is less than the length of what is read.           *)
C19_NoOutOfBoundsReads ==
    [][fed' # fed =>
          \A r \in NotifyReads(NewBytes, rxBuffer) : r[1] >= 0 /\ r[1] < r[2]]_vars

\* a frame of five bytes, which parseVESCResponse returns from at once, and
\* after it a values response, the second one received in pieces: the
\* diagnostic reads and the reads at 29 and 30 have been done
C19_Witness ==
    /\ Len(decoded) = 2
    /\ decoded[1] = EmptyFrame
    /\ IsValuesResponse(decoded[2])
    /\ <<34, Len(decoded[2])>> \in ParseReads(decoded[2])
    /\ fragmented
    /\ rxBuffer = <<>>

-----------------------------------------------------------------------------
(* C20 as stated: whenever the bytes fed so far, in whatever notifications, *)
(* are two or more valid frames back to back, exactly these frames have     *)
(* been handed to the decoder, each once and in the order of their bytes.   *)
C20_EveryFrameOnceInOrder ==
    (FramesOf(fed).ok /\ Len(FramesOf(fed).frames) >= 2) =>
        decoded = FramesOf(fed).frames

(* C20 amended: whenever the bytes fed so far, in whatever notifications,   *)
(* are two or more valid frames back to back, the frames handed to the      *)
(* decoder are these, each once and in the order of their bytes, up to the  *)
(* last one, which is handed over as well and the buffer left empty when    *)
(* its LEN is 1 or more, and stays in the buffer, not yet handed over, when *)
(* its LEN is 0 (five bytes, fewer than the six the scan starts at).        *)
C20_DecodeOrder ==
    (FramesOf(fed).ok /\ Len(FramesOf(fed).frames) >= 2) =>
        LET fs == FramesOf(fed).frames
            last == fs[Len(fs)]
        IN  /\ last[2] >= 1 => decoded = fs /\ rxBuffer = <<>>
            /\ last[2] = 0 => decoded = Front(fs) /\ rxBuffer = last

\* a values response and a heartbeat reply that came in one notification,
\* both handed over, in that order
C20_Witness ==
    /\ fed = ValuesFrameA \o AliveFrame
    /\ ~fragmented
    /\ decoded = <<ValuesFrameA, AliveFrame>>
    /\ rxBuffer = <<>>
    /\ nsent = 2

-----------------------------------------------------------------------------
(* C21: a step of the scan loop that finds START at the head of rxBuffer,   *)
(* at least total = 2 + LEN + 3 bytes buffered and a byte other than STOP   *)
(* at index total - 1 removes the leading START and nothing else: the       *)
(* bytes after it stay as they were and in order, nothing is handed to      *)
(* parseVESCResponse, the telemetry is untouched, and the loop goes back    *)
(* to its test on what remains.                                             *)
C21_StopMismatchDropsOneByte ==
    [][(/\ scanning
        /\ iterations' = iterations + 1
        /\ At(rxBuffer, 0) = VESC_PACKET_START
        /\ Len(rxBuffer) >= 2 + At(rxBuffer, 1) + 3
        /\ At(rxBuffer, 2 + At(rxBuffer, 1) + 3 - 1) # VESC_PACKET_STOP)
       => /\ Len(rxBuffer') = Len(rxBuffer) - 1
          /\ \A i \in 1..Len(rxBuffer') : rxBuffer'[i] = rxBuffer[i + 1]
          /\ decoded' = decoded
          /\ Telemetry' = Telemetry
          /\ scanning']_vars

\* START, LEN = 1 and a zero where STOP should be: the START is gone, the
\* six bytes behind it wait for the next run of the test
C21_Witness ==
    /\ scanning
    /\ iterations = 1
    /\ fed = <<VESC_PACKET_START, 1, 0, VESC_PACKET_START, 0, 0, 0>>
    /\ rxBuffer = <<1, 0, VESC_PACKET_START, 0, 0, 0>>
    /\ decoded = <<>>

-----------------------------------------------------------------------------
(* C22: the staleness check of l.719, run while Connected, leaves the       *)
(* machine Connected whenever a values frame has been decoded and the time  *)
(* that has really passed since lastVoltageUpdate is at most                *)
(* VESC_DATA_STALE_TIMEOUT_MS, wherever notifyCallback ran between the      *)
(* reads of l.715 and the test of l.719.                                    *)
C22_NoSpuriousStaleness ==
    [][(/\ pc = "st_chk"
        /\ pc' = "cn_btnA"
        /\ isConnected
        /\ ~isReconnecting
        /\ vescVoltage # 0
        /\ Elapsed(lastVoltageUpdate) <= VESC_DATA_STALE_TIMEOUT_MS)
       => (isConnected' /\ ~isReconnecting')]_vars

-----------------------------------------------------------------------------
(* C23: the loop of l.218-254 ends in every call of notifyCallback: an      *)
(* iteration of its body either leaves the loop or leaves rxBuffer shorter  *)
(* than it found it, the number of iterations of a call never exceeds the   *)
(* length rxBuffer had when the loop began, and a call that has entered     *)
(* the loop comes out of it.                                                *)
C23_ScanTerminates ==
    /\ [](iterations <= scanFrom)
    /\ [][(scanning /\ iterations' = iterations + 1)
            => (~scanning' \/ Len(rxBuffer') < Len(rxBuffer))]_vars
    /\ (scanning ~> ~scanning)

\* seven bytes: a candidate without STOP loses its START, the zeros before
\* the next START are skipped, and the loop is left waiting on START, LEN
C23_Witness ==
    /\ ~scanning
    /\ iterations = 2
    /\ scanFrom = 7
    /\ fed = <<VESC_PACKET_START, 0, 0, 0, 0, VESC_PACKET_START, 0>>
    /\ rxBuffer = <<VESC_PACKET_START, 0>>

-----------------------------------------------------------------------------
(* C24: whenever notifyCallback has returned, rxBuffer holds fewer than     *)
(* MIN_PACKET_SIZE = 6 bytes, or it begins with START and holds fewer       *)
(* bytes than the frame its length byte declares, 2 + rxBuffer[1] + 3; so   *)
(* it never holds more than 259 bytes between two notifications.            *)
C24_BufferBoundedAtRest ==
    ~scanning =>
        /\ \/ Len(rxBuffer) < 6
           \/ /\ At(rxBuffer, 0) = VESC_PACKET_START
              /\ Len(rxBuffer) < 2 + At(rxBuffer, 1) + 3
        /\ Len(rxBuffer) <= 259

\* the head of a frame with LEN = 255, one byte short: 259 bytes at rest
C24_Witness ==
    /\ ~scanning
    /\ iterations = 1
    /\ Len(rxBuffer) = 259
    /\ At(rxBuffer, 0) = VESC_PACKET_START
    /\ At(rxBuffer, 1) = 255

-----------------------------------------------------------------------------
(* C25: at the start of every iteration of loop() with isReconnecting       *)
(* true, lastConnectedDeviceIndex is at least 0 and less than               *)
(* discoveredDevices.size(), whatever the interleaving of onDisconnect      *)
(* with the buttons; the branch of l.701-707 is then never taken.           *)
C25_ReconnectingHasTarget ==
    (pc = "top" /\ isReconnecting) => HasTarget

-----------------------------------------------------------------------------
(* C26: at every boundary between two iterations of loop(), the end of one  *)
(* and the start of the next, isConnected and isReconnecting are not both   *)
(* true, whatever connects, onDisconnect callbacks, staleness transitions   *)
(* and button presses came before.                                          *)
C26_FlagsMutuallyExclusive ==
    pc \in {"top", "end"} => ~(isConnected /\ isReconnecting)

\* Connected again at the start of an iteration, by a reconnect attempt made
\* from Reconnecting
C26_Witness ==
    /\ pc = "top"
    /\ isConnected
    /\ ~isReconnecting
    /\ lastReconnectAttempt > 0
    /\ connectionStartTime >= lastReconnectAttempt
    /\ lastTaken = "none"

-----------------------------------------------------------------------------
-----------------------------------------------------------------------------
(* C10: a step in which only frames that the decoder does not take for a    *)
(* values response (payload shorter than 50 bytes: the heartbeat reply      *)
(* [0x1E], the empty frame, unknown payloads) reach it leaves the voltage,  *)
(* the FET temperature and lastVoltageUpdate as they were.                  *)
C10_NonValuesFramesLeaveTelemetry ==
    [][(NewPackets # <<>> /\ ~HasPayloadOf(NewPackets, 50))
        => UNCHANGED telemetryVars]_vars

\* a heartbeat reply decoded after a values frame, later than it
C10_Witness ==
    /\ decoded = <<ValuesFrameA, AliveFrame>>
    /\ vescVoltage = 200
    /\ lastVoltageUpdate < clock

====
